---- MODULE Spec2Model ----
(***************************************************************************)
(* State-machine model of the doccrawl URL frontier engine.                *)
(*                                                                         *)
(*   Spec       the run controller  (doccrawl/main.py, CrawlerApp)         *)
(*   SpecBatch  the batch crawler   (doccrawl/core/crawler.py, Crawler.run)*)
(*   SpecFault  the run controller with raising store operations          *)
(*   SpecNav    the page navigations of the strategies, timed             *)
(*   SpecUnit   single calls of strategies and URL utilities              *)
(*   SpecDepth  the run controller, a root of any type and max_depth      *)
(*   SpecAI     the run controller, the classifier failing or answering   *)
(*                                                                         *)
(* All work on the same two tables,  url_frontier and config_url_logs.     *)
(* A table is a sequence of rows, the SERIAL id of a row is its index.     *)
(* The CRUD layer is synchronous; an `await` in front of a CRUD call is    *)
(* modelled as the call itself.  Python's None is the string "None" (or    *)
(* the id 0 for an absent id).  A regular expression is modelled by the    *)
(* set of URLs it matches; the web is a fixed snapshot chosen by Init.     *)
(***************************************************************************)
EXTENDS Integers, Sequences, FiniteSets, TLC

\* ------------------------------------------------------------- bounds ----
MaxRuns  == 2      \* invocations of CrawlerApp.run_crawler in one behaviour
MaxRoots == 2      \* configured root URLs per configuration
BatchSize == 2     \* Crawler.batch_size: the LIMIT of get_pending_urls
MaxBatches == 3    \* batches Crawler.run takes in one behaviour
MaxFaults == 2     \* store operations that raise in one behaviour

None   == "None"
NoId   == 0
NoTime == -1       \* an absent datetime or duration

\* ------------------------------------------------------ the URL universe --
ROOT_URLS == {"r1", "r2"}
URLS      == {"r1", "r2", "s1", "s2", "t1", "t2"}

\* the iteration orders of a Python set of these URLs that the model
\* distinguishes (the order depends on the hash seed of the process)
URL_ORDERS == { <<"t1", "r1", "s1", "t2", "s2", "r2">>,
                <<"r2", "s2", "t2", "s1", "r1", "t1">> }


\* ------------------------------------------------------------ patterns ---
\* re.search(pattern, url, re.IGNORECASE): the URLs each regex matches;
\* compiling "bad[" raises re.error
REGEX_LANG == [pdf  |-> {"t1", "t2"},
               year |-> {"s1", "s2", "r2"},
               bad  |-> {}]
INVALID_REGEX == {"bad"}

re_search(pattern, url) ==
    CASE pattern = "pdf"  -> url \in REGEX_LANG.pdf
      [] pattern = "year" -> url \in REGEX_LANG.year
      [] OTHER            -> FALSE

\* CrawlerUtils.matches_patterns(url, patterns) from pattern i on: any() of
\* re.search over the patterns in order, with no handler: re.error leaves
\* the call unless an earlier pattern matched
RECURSIVE matches_patterns_from(_, _, _)
matches_patterns_from(url, patterns, i) ==
    IF i > Len(patterns) THEN [raised |-> FALSE, value |-> FALSE]
    ELSE IF patterns[i] \in INVALID_REGEX
         THEN [raised |-> TRUE, value |-> FALSE]
         ELSE IF re_search(patterns[i], url)
              THEN [raised |-> FALSE, value |-> TRUE]
              ELSE matches_patterns_from(url, patterns, i + 1)

matches_patterns(url, patterns) == matches_patterns_from(url, patterns, 1)

_matches_pattern(url, pattern) ==
    IF pattern \in INVALID_REGEX THEN FALSE ELSE re_search(pattern, url)

\* _is_target_url answering True for every URL
_is_target_url_all(url, patterns) == TRUE

_is_target_url(url, patterns) ==
    \E i \in 1..Len(patterns) : _matches_pattern(url, patterns[i])

\* ------------------------------------------------------------- the web ---
\* links[u]: the normalized URLs _get_page_urls and _extract_file_urls return
\* for page u;  aiT[u], aiS[u]: the URLs the classifier labels target and
\* seed on page u;  ai: how a call of the classifier ends
\*   "ok"        settings.scrapegraph_api_key is set, the call answers
\*   "no_key"    settings.scrapegraph_api_key is not set
\*   "raises"    SmartScraperMultiGraph or its run() raises
\*   "malformed" the answer has no 'urls' list of items
AI_MODES == {"ok", "no_key", "raises", "malformed"}

NoLinks == [u \in URLS |-> {}]

WEB_S3 == [links |-> [NoLinks EXCEPT !["r1"] = {"t1", "s1"},
                                     !["s1"] = {"t1", "t2"},
                                     !["r2"] = {"s1", "t2"}],
           aiT |-> [NoLinks EXCEPT !["s1"] = {"t2"}],
           aiS |-> [NoLinks EXCEPT !["s1"] = {"s2"}],
           ai |-> "ok"]

WEB_CYCLE == [links |-> [NoLinks EXCEPT !["r1"] = {"r1", "s1", "r2"},
                                        !["s1"] = {"s1", "s2", "r1"},
                                        !["s2"] = {"s1", "t1"},
                                        !["r2"] = {"r1", "r2", "s2"},
                                        !["t1"] = {"t1", "t2"}],
              aiT |-> [NoLinks EXCEPT !["s1"] = {"t1"}, !["s2"] = {"t1", "t2"}],
              aiS |-> [NoLinks EXCEPT !["s1"] = {"s2"}, !["s2"] = {"s1"}],
              ai |-> "ok"]

WEB_SHARED == [links |-> [NoLinks EXCEPT !["r1"] = {"s1", "s2", "t1"},
                                         !["s1"] = {"t1", "t2"},
                                         !["s2"] = {"t1", "t2", "s1"},
                                         !["r2"] = {"t1", "t2"}],
               aiT |-> [NoLinks EXCEPT !["s1"] = {"t2"}, !["s2"] = {"t2"}],
               aiS |-> NoLinks,
               ai |-> "ok"]

WEBS == {WEB_S3, WEB_CYCLE, WEB_SHARED}

\* the pages that answer 200: all of them, or all but one seed page
OK_SETS == {URLS, URLS \ {"s1"}}

\* --------------------------------------------------------- configuration --
\* (type, max_depth, seed_pattern) of a configured root; the controller does
\* not validate max_depth against the type
KINDS == { <<0, 0, None>>, <<1, 0, None>>, <<2, 1, "year">>, <<2, 2, "year">>,
           <<3, 2, "year">>, <<4, 2, "year">> }

UrlConfig(u, k) ==
    [url |-> u, type |-> k[1], max_depth |-> k[2],
     target_patterns |-> <<"pdf">>, seed_pattern |-> k[3]]

ROOT_CONFIGS == { UrlConfig(u, k) : u \in ROOT_URLS, k \in KINDS }

CATEGORY == "grants"

CONFIGS == UNION { [1..n -> ROOT_CONFIGS] : n \in 1..MaxRoots }

\* ----------------------------------------------------------------- state --
VARIABLES
    web,             \* the web snapshot (links, aiT, aiS)
    okPages,         \* pages answering HTTP 200
    config,          \* settings.get_categories(): the roots of the category
    order,           \* iteration order of the sets of this process
    frontier,        \* table url_frontier
    history,         \* per frontier row: the successive values of status
    handed,          \* per frontier row: times the row was handed to a strategy
    origin,          \* per frontier row: the batch and task that inserted it
    logs,            \* table config_url_logs
    pc,              \* position of the run controller
    run,             \* number of the current run_crawler invocation
    rootIdx,         \* index in category.urls of the root being processed
    log_id,          \* id of the RunLog of the current root
    current_depth,   \* process_url_recursively: current_depth
    urls_to_process, \* process_url_recursively: urls_to_process
    next_level_urls, \* process_url_recursively: next_level_urls
    pos,             \* index of the for loop over urls_to_process
    last_url,        \* the FrontierUrl of the last process_url_at_depth call
    last_new_urls,   \* what process_single_url returned in that call
    bpc,             \* position of Crawler.run
    batchNo,         \* number of batches Crawler.run has taken
    tasks,           \* the _process_url tasks of the current batch
    now,             \* datetime.now(), in ticks
    faults,          \* store operations that have raised so far
    clock,           \* wall-clock time of the run, in seconds
    session,         \* the open page session: its strategy instance
    last_nav,        \* time of the last page.goto to the domain
    nav_gap,         \* time between the last two page.goto to the domain
    unit             \* the last strategy or utility call examined alone

envVars   == <<web, okPages, config, order>>
storeVars == <<frontier, history, handed, origin, logs>>
ctlVars   == <<pc, run, rootIdx, log_id, current_depth, urls_to_process,
               next_level_urls, pos, last_url, last_new_urls>>
batchVars == <<bpc, batchNo, tasks>>

navVars   == <<clock, session, last_nav, nav_gap>>

vars == <<envVars, storeVars, ctlVars, batchVars, now, faults, navVars, unit>>

\* list(S) for a Python set S
RECURSIVE SeqOfFrom(_, _)
SeqOfFrom(S, i) ==
    IF i > Len(order) THEN <<>>
    ELSE IF order[i] \in S THEN <<order[i]>> \o SeqOfFrom(S, i + 1)
         ELSE SeqOfFrom(S, i + 1)

SetToSeq(S) == SeqOfFrom(S, 1)

\* ------------------------------------------------------------- records ---
\* FrontierUrl(...): the pydantic model; id, depth, is_target, parent_url,
\* status and error_message have defaults
FrontierUrl(url, category, url_type, depth, max_depth, target_patterns, seed_pattern, is_target, parent_url) ==
    [id |-> NoId, url |-> url, category |-> category, url_type |-> url_type,
     depth |-> depth, max_depth |-> max_depth,
     target_patterns |-> target_patterns, seed_pattern |-> seed_pattern,
     is_target |-> is_target, parent_url |-> parent_url,
     status |-> "pending", error_message |-> None]

\* no FrontierUrl
NoUrl == FrontierUrl(None, None, 0, 0, 0, <<>>, None, FALSE, None)

\* create_frontier_url with the child two levels below its parent
create_frontier_url_deep(url, parent, is_target) ==
    FrontierUrl(url, parent.category, parent.url_type, parent.depth + 2,
                parent.max_depth, parent.target_patterns, parent.seed_pattern,
                is_target, parent.url)

\* CrawlerStrategy.create_frontier_url
create_frontier_url(url, parent, is_target) ==
    FrontierUrl(url, parent.category, parent.url_type, parent.depth + 1,
                parent.max_depth, parent.target_patterns, parent.seed_pattern,
                is_target, parent.url)

\* ConfigUrlLog(...): the pydantic model with its defaults
ConfigUrlLog(c) ==
    [url |-> c.url, category |-> c.category, url_type |-> c.url_type,
     max_depth |-> c.max_depth, status |-> "pending",
     start_time |-> NoTime, end_time |-> NoTime,
     processing_duration |-> NoTime,
     total_urls_found |-> 0, target_urls_found |-> 0, seed_urls_found |-> 0,
     failed_urls |-> 0, reached_depth |-> 0,
     error_message |-> None, warning_messages |-> <<>>]

\* -------------------------------------------------------- frontier CRUD ---
\* exists_in_frontier with the test narrowed to the rows still PENDING
exists_in_frontier_pending(fr, url) ==
    \E i \in 1..Len(fr) : fr[i].url = url /\ fr[i].status = "pending"

\* FrontierCRUD.exists_in_frontier: SELECT EXISTS(... WHERE url = %s)
exists_in_frontier(fr, url) == \E i \in 1..Len(fr) : fr[i].url = url

\* FrontierCRUD.create_url: INSERT ... RETURNING id, status forced to PENDING
create_url(fr, fu) == Append(fr, [fu EXCEPT !.id = Len(fr) + 1,
                                            !.status = "pending"])

\* update_url_status that does not write the status FAILED
update_url_status_nofail(fr, url_id, status, error_message) ==
    [i \in 1..Len(fr) |->
        IF i = url_id /\ status # "failed"
        THEN [fr[i] EXCEPT !.status = status,
                           !.error_message = error_message]
        ELSE fr[i]]

\* FrontierCRUD.update_url_status: UPDATE ... SET status, error_message
\* WHERE id = url_id (no row is touched when the id matches none)
update_url_status(fr, url_id, status, error_message) ==
    [i \in 1..Len(fr) |->
        IF i = url_id THEN [fr[i] EXCEPT !.status = status,
                                         !.error_message = error_message]
        ELSE fr[i]]

\* the status column's successive values, kept beside the table
record_status(h, url_id, status) ==
    [i \in 1..Len(h) |-> IF i = url_id THEN Append(h[i], status) ELSE h[i]]

\* --------------------------------------------------------- strategies ----
\* page.goto(url) answered with a response of status 200
goto_ok(url) == url \in okPages

\* _get_page_urls() joined with _extract_file_urls() on the loaded page
page_urls(url) == web.links[url]

Children(urls, parent, is_target) ==
    [i \in 1..Len(urls) |-> create_frontier_url(urls[i], parent, is_target)]

\* the `self.frontier_crud and exists_in_frontier(url)` test of a strategy;
\* fc is FALSE when the strategy was built with frontier_crud=None
Known(fc, fr, url) == fc /\ exists_in_frontier(fr, url)

\* Type0Strategy.execute: never returns a child
Type0Execute(fu, fc, fr) == <<>>

\* ------------------------------------------------------ URL texts -----
\* a URL text as urlparse splits it: port 0 is an absent port; the query is
\* its '&'-separated parameters, and slash tells that a '/' ends the last
\* of them
PATHS == {"/year/2024", "/year/2024/", "/doc/a.pdf"}
PARAM_LISTS == {<<>>, <<"a=1">>, <<"a=1", "b=2">>, <<"b=2", "a=1">>}

RAW_URLS ==
    [scheme : {"http", "https"}, port : {0, 80, 443, 8080}, path : PATHS,
     query : [params : PARAM_LISTS, slash : {FALSE}], fragment : {"", "top"}]

\* str.endswith('/') of a path, and '.' in path.split('/')[-1]
path_ends_slash(path) == path = "/year/2024/"
last_segment_has_dot(path) == path = "/doc/a.pdf"
path_add_slash(path) == IF path = "/year/2024" THEN "/year/2024/" ELSE path

\* the string order of the parameters
param_rank(param) == IF param = "a=1" THEN 1 ELSE 2

\* sorted(list): insertion of list[i..] into an ordered list
RECURSIVE insert_sorted(_, _)
insert_sorted(param, done) ==
    IF done = <<>> THEN <<param>>
    ELSE IF param_rank(param) <= param_rank(Head(done))
         THEN <<param>> \o done
         ELSE <<Head(done)>> \o insert_sorted(param, Tail(done))

RECURSIVE sorted(_)
sorted(params) ==
    IF params = <<>> THEN <<>>
    ELSE insert_sorted(Head(params), sorted(Tail(params)))

\* CrawlerUtils.clean_url: ':80' and ':443' removed from the netloc, the
\* query parameters sorted, the fragment dropped, and a '/' appended to the
\* rebuilt text when it does not end with one and the last path segment
\* has no '.'
clean_url(url) ==
    LET netloc_port == IF url.port \in {80, 443} THEN 0 ELSE url.port
        query == [params |-> sorted(url.query.params),
                  slash |-> url.query.slash]
        clean == [scheme |-> url.scheme, port |-> netloc_port,
                  path |-> url.path, query |-> query, fragment |-> ""]
        ends_slash == IF query.params # <<>> THEN query.slash
                      ELSE path_ends_slash(url.path)
    IN  IF ~ends_slash /\ ~last_segment_has_dot(url.path)
        THEN IF query.params # <<>>
             THEN [clean EXCEPT !.query.slash = TRUE]
             ELSE [clean EXCEPT !.path = path_add_slash(url.path)]
        ELSE clean

\* CrawlerStrategy._normalize_url of an absolute URL: scheme, netloc, path
\* and query are kept as they are, the fragment is dropped
_normalize_url(url) == [url EXCEPT !.fragment = ""]

\* the ways a URL text of a page reaches the result of a strategy:
\* anchor href (_get_page_urls, lines 229-232), onclick URL (lines 234-239),
\* file href and file onclick (_extract_file_urls), classifier output
\* (_analyze_with_scrapegraph)
EXTRACTIONS == {"href", "onclick", "file_href", "file_onclick", "classifier"}

\* the file-extension test of _extract_file_urls on the href text
is_file_href(url) ==
    /\ last_segment_has_dot(url.path)
    /\ url.query.params = <<>>
    /\ url.fragment = ""

\* whether the way yields the URL text at all
extracted(via, url) == via = "file_href" => is_file_href(url)

\* the URL text the way hands to the strategy
extract(via, url) ==
    IF via \in {"href", "file_href", "classifier"} THEN _normalize_url(url)
    ELSE url

\* no call was examined yet
NoCall == [op |-> "none"]

\* the response content types of the model and those that contain one of
\* 'pdf', 'msword', 'vnd.openxmlformats', 'vnd.ms-excel' (type_0.py, 64-66)
CONTENT_TYPES == {"application/pdf", "application/msword", "text/html", ""}
is_document(content_type) ==
    content_type \in {"application/pdf", "application/msword"}

\* the URLs whose text contains '.pdf', '.doc', '.docx', '.xls' or '.xlsx'
\* (type_0.py, line 68): t1 and t2 stand for URLs ending in .pdf
has_doc_extension(url) == url \in {"t1", "t2"}

\* Type0Strategy.execute: the value of frontier_url.is_target after the call.
\* The document test of lines 64-73 only logs a warning
Type0IsTarget(fu, status, content_type) ==
    IF fu.target_patterns = <<>> THEN fu.is_target
    ELSE IF ~_is_target_url(fu.url, fu.target_patterns) THEN fu.is_target
    ELSE IF status # 200 THEN fu.is_target
    ELSE TRUE

\* Type4Strategy._process_final_depth, lines 261-266 and 280-285: the links
\* kept by the target filter; when matches_patterns raises on a link the
\* handler answers [] for the page.  For a link that matches_patterns
\* accepts the filter goes on to CrawlerUtils.is_valid_url, which
\* utils/crawler_utils.py does not define: AttributeError, and the handler
\* answers [] as well
final_depth_links(all_urls, patterns) ==
    IF \E u \in all_urls : matches_patterns(u, patterns).raised THEN {}
    ELSE IF \E u \in all_urls : matches_patterns(u, patterns).value THEN {}
    ELSE {u \in all_urls : matches_patterns(u, patterns).value}

\* Type1Strategy.execute
Type1Execute(fu, fc, fr) ==
    IF fu.target_patterns = <<>> THEN <<>>
    ELSE IF ~goto_ok(fu.url) THEN <<>>
    ELSE Children(SetToSeq({u \in page_urls(fu.url) :
                               /\ u # fu.url
                               /\ _is_target_url(u, fu.target_patterns)
                               /\ ~Known(fc, fr, u)}),
                  fu, TRUE)

\* Type2Strategy._extract_page_urls(url, frontier_url)
_extract_page_urls(url, fu) ==
    IF ~goto_ok(url) THEN [targets |-> {}, seeds |-> {}]
    ELSE [targets |-> {u \in page_urls(url) :
                          _is_target_url(u, fu.target_patterns)},
          seeds   |-> {u \in page_urls(url) :
                          /\ fu.seed_pattern # None
                          /\ _matches_pattern(u, fu.seed_pattern)
                          /\ u # fu.url}]

\* Type2Strategy.execute, lines 99-106: the targets of the current page
Type2Targets(page, parent, fc, fr) ==
    Children(SetToSeq({u \in page.targets : ~Known(fc, fr, u)}), parent, TRUE)

\* the seed loop's iteration with the seed page's targets built from the
\* page being processed instead of from the seed
Type2Seed_flat(seed_url, fu, fc, fr) ==
    IF Known(fc, fr, seed_url) THEN <<>>
    ELSE <<create_frontier_url(seed_url, fu, FALSE)>> \o
         Type2Targets(_extract_page_urls(seed_url, fu), fu, fc, fr)

\* Type2Strategy.execute, lines 111-143: one iteration of the seed loop
Type2Seed(seed_url, fu, fc, fr) ==
    IF Known(fc, fr, seed_url) THEN <<>>
    ELSE LET seed_frontier_url == create_frontier_url(seed_url, fu, FALSE)
         IN  <<seed_frontier_url>> \o
             Type2Targets(_extract_page_urls(seed_url, fu),
                          seed_frontier_url, fc, fr)

RECURSIVE Type2Seeds(_, _, _, _, _)
Type2Seeds(seeds, i, fu, fc, fr) ==
    IF i > Len(seeds) THEN <<>>
    ELSE Type2Seed(seeds[i], fu, fc, fr) \o Type2Seeds(seeds, i + 1, fu, fc, fr)

\* Type2Strategy.execute, lines 109-133: the seed pages (depth + 1) that
\* execute opens itself before it returns
Type2SeedPages(fu, fc, fr) ==
    IF fu.target_patterns = <<>> \/ ~(fu.depth < fu.max_depth) THEN {}
    ELSE {u \in _extract_page_urls(fu.url, fu).seeds : ~Known(fc, fr, u)}

\* Type2Strategy.execute without its `depth < max_depth` test
Type2Execute_nodepth(fu, fc, fr) ==
    IF fu.target_patterns = <<>> THEN <<>>
    ELSE LET page == _extract_page_urls(fu.url, fu)
         IN  Type2Targets(page, fu, fc, fr) \o
             Type2Seeds(SetToSeq(page.seeds), 1, fu, fc, fr)

\* Type2Strategy.execute
Type2Execute(fu, fc, fr) ==
    IF fu.target_patterns = <<>> THEN <<>>
    ELSE LET page == _extract_page_urls(fu.url, fu)
         IN  Type2Targets(page, fu, fc, fr) \o
             (IF fu.depth < fu.max_depth
              THEN Type2Seeds(SetToSeq(page.seeds), 1, fu, fc, fr)
              ELSE <<>>)

\* Type3Strategy._process_depth_0: regex partition, a target is no seed
_process_depth_0(fu, fc, fr) ==
    IF fu.target_patterns = <<>> \/ fu.seed_pattern = None THEN <<>>
    ELSE IF ~goto_ok(fu.url) THEN <<>>
    ELSE LET kept == {u \in page_urls(fu.url) :
                         /\ u # fu.url
                         /\ \/ _is_target_url(u, fu.target_patterns)
                            \/ _matches_pattern(u, fu.seed_pattern)
                         /\ ~Known(fc, fr, u)}
             urls == SetToSeq(kept)
         IN  [i \in 1..Len(urls) |->
                create_frontier_url(urls[i], fu,
                    _is_target_url(urls[i], fu.target_patterns))]

\* the values of an item of the classifier's answer (the schema Url:
\* url, pagination and url_category are strings)
ITEM_PAGINATION == {"true", "false", "True"}
ITEM_CATEGORIES == {"target", "seed", "other"}
ITEMS == [url : {"s1", "t1"}, pagination : ITEM_PAGINATION,
          url_category : ITEM_CATEGORIES]

\* str.lower() of a pagination value
lower(text) == IF text = "True" THEN "true" ELSE text

\* str.endswith('.pdf') of a URL: t1 and t2 stand for URLs ending in .pdf
ends_with_pdf(url) == url \in {"t1", "t2"}

NoSets == [targets |-> {}, seeds |-> {}]

\* the items search_graph.run() returns for page url
ScrapeResult(url) ==
    {[url |-> u, pagination |-> "false", url_category |-> "target"] :
        u \in web.aiT[url]}
    \cup {[url |-> u, pagination |-> "false", url_category |-> "seed"] :
             u \in web.aiS[url]}

\* Type3Strategy._analyze_with_scrapegraph that goes on with the answer
\* whatever the way the call ended
Type3_analyze_with_scrapegraph_unguarded(mode, items) ==
    [targets |-> {x.url : x \in {y \in items : y.url_category = "target"}},
     seeds   |-> {x.url : x \in {y \in items :
                                    /\ y.url_category = "seed"
                                    /\ y.pagination # "true"}}]

\* Type3Strategy._analyze_with_scrapegraph: no key, a raise or an answer
\* without its items give two empty sets (lines 108-110, 146-152); else
\* the seeds are the items labelled seed whose pagination is not 'true' and
\* the targets are the items labelled target (lines 133-143)
Type3_analyze_with_scrapegraph(mode, items) ==
    IF mode # "ok" THEN NoSets
    ELSE [targets |-> {x.url : x \in {y \in items :
                                        y.url_category = "target"}},
          seeds   |-> {x.url : x \in {y \in items :
                                        /\ y.url_category = "seed"
                                        /\ y.pagination # "true"}}]

\* CrawlerStrategy._analyze_with_scrapegraph: as above for the ways the
\* call ends; an item whose lowered pagination is 'true' is passed over
\* (line 354); of the others the target test comes first (lines 362-367).
\* The URL of an item is absolute and without fragment, _normalize_url
\* leaves it as it is
Base_analyze_with_scrapegraph(mode, items) ==
    IF mode # "ok" THEN NoSets
    ELSE LET kept == {x \in items : lower(x.pagination) # "true"}
             is_target(x) ==
                 \/ x.url_category = "target"
                 \/ ends_with_pdf(x.url) /\ _is_target_url(x.url, <<>>)
         IN  [targets |-> {x.url : x \in {y \in kept : is_target(y)}},
              seeds   |-> {x.url : x \in {y \in kept :
                                            /\ ~is_target(y)
                                            /\ y.url_category = "seed"}}]

\* Type3Strategy._analyze_with_scrapegraph(url)
Type3Analyze(url) == Type3_analyze_with_scrapegraph(web.ai, ScrapeResult(url))

\* Type3Strategy._process_depth_1: classifier targets, then classifier seeds
_process_depth_1(fu, fc, fr) ==
    IF ~goto_ok(fu.url) THEN <<>>
    ELSE LET a == Type3Analyze(fu.url)
         IN  Children(SetToSeq({u \in a.targets : ~Known(fc, fr, u)}), fu, TRUE)
             \o (IF fu.depth < fu.max_depth - 1
                 THEN Children(SetToSeq({u \in a.seeds : ~Known(fc, fr, u)}),
                               fu, FALSE)
                 ELSE <<>>)

\* Type3Strategy._process_depth_2: regex targets only
_process_depth_2(fu, fc, fr) ==
    IF ~goto_ok(fu.url) THEN <<>>
    ELSE Children(SetToSeq({u \in page_urls(fu.url) :
                               /\ fu.target_patterns # <<>>
                               /\ _is_target_url(u, fu.target_patterns)
                               /\ ~Known(fc, fr, u)}),
                  fu, TRUE)

\* Type3Strategy.execute, lines 263-282: the children it returns
Type3Execute(fu, fc, fr) ==
    IF fu.target_patterns = <<>> THEN <<>>
    ELSE IF fu.max_depth # 2 THEN <<>>
    ELSE IF fu.depth = 0 THEN _process_depth_0(fu, fc, fr)
    ELSE IF fu.depth = 1 THEN _process_depth_1(fu, fc, fr)
    ELSE IF fu.depth = 2 THEN _process_depth_2(fu, fc, fr)
    ELSE <<>>

\* Crawler.process_single_url: the strategy is built with frontier_crud=None.
\* Type4Strategy dereferences self.frontier_crud without a None test, both
\* in its exists_in_frontier tests and in the update_url_status of execute
\* and of its exception handler: the AttributeError leaves execute and
\* process_single_url answers [] for every Type-4 URL.
process_single_url(fu) ==
    CASE fu.url_type = 0 -> Type0Execute(fu, FALSE, frontier)
      [] fu.url_type = 1 -> Type1Execute(fu, FALSE, frontier)
      [] fu.url_type = 2 -> Type2Execute(fu, FALSE, frontier)
      [] fu.url_type = 3 -> Type3Execute(fu, FALSE, frontier)
      [] OTHER           -> <<>>

\* ---------------------------------------------------------- run-log CRUD --
\* ConfigUrlLogCRUD.create_log: INSERT, the new row's id is returned
create_log(lg, log) == Append(lg, log)

\* ConfigUrlLogCRUD.start_processing: UPDATE SET status = RUNNING, start_time
start_processing(lg, id) ==
    [lg EXCEPT ![id].status = "running", ![id].start_time = now]

\* the statuses for which update_status sets end_time
TERMINAL_LOG_STATUS == {"completed", "failed", "partially_completed"}

\* update_status that leaves the status column as it is
update_status_keep(lg, id, status, error_message) ==
    [lg EXCEPT ![id].error_message = error_message,
               ![id].end_time = IF status \in TERMINAL_LOG_STATUS
                                THEN now ELSE @]

\* ConfigUrlLogCRUD.update_status without metrics: UPDATE SET status,
\* error_message, and end_time for a terminal status.  The data dictionary
\* of the call has no 'start_time' key, so data.get('start_time') is None
\* and processing_duration is not among the columns written.
update_status(lg, id, status, error_message) ==
    [lg EXCEPT ![id].status = status, ![id].error_message = error_message,
               ![id].end_time = IF status \in TERMINAL_LOG_STATUS
                                THEN now ELSE @]

\* ConfigUrlLogCRUD.update_status(..., reached_depth=d)
update_status_depth(lg, id, status, d) ==
    [lg EXCEPT ![id].status = status, ![id].error_message = None,
               ![id].reached_depth = d]

\* increment_counters with the total taken from the targets alone
increment_counters_targets(lg, id, target_urls, seed_urls, failed_urls) ==
    [lg EXCEPT ![id].total_urls_found  = target_urls,
               ![id].target_urls_found = target_urls,
               ![id].seed_urls_found   = seed_urls,
               ![id].failed_urls       = failed_urls]

\* ConfigUrlLogCRUD.increment_counters: BaseCRUD.update issues
\* UPDATE ... SET column = value for each of the four counters
increment_counters(lg, id, target_urls, seed_urls, failed_urls) ==
    [lg EXCEPT ![id].total_urls_found  = target_urls + seed_urls,
               ![id].target_urls_found = target_urls,
               ![id].seed_urls_found   = seed_urls,
               ![id].failed_urls       = failed_urls]

\* ConfigUrlLogCRUD.add_warning: UPDATE ... SET warning_messages = [warning]
add_warning(lg, id, warning) == [lg EXCEPT ![id].warning_messages = <<warning>>]

\* ------------------------------------------------------ page navigation ---
\* length of the timed runs, in seconds, and gotos of one strategy instance
MaxClock == 5
MaxGotos == 3

\* the minimum delay between two requests to one domain
MIN_SPACING == 2

\* page.wait_for_timeout(1000) of _wait_for_page_ready, in seconds
PAGE_READY_WAIT == 1

\* wait_for_selector(selector, timeout=2000) of _handle_dynamic_elements,
\* in seconds: the least time it takes when a selector is absent
SELECTOR_TIMEOUT == 2

\* no page is open
NoSession == [open |-> FALSE, type |-> 0, last_request_time |-> NoTime,
              ready_at |-> 0, gotos |-> 0]

\* Type4Strategy._wait_for_rate_limit(domain) called at time t: the seconds
\* slept and the new last_request_time[domain].  type_4.py does not import
\* `time`, so time.time() raises NameError, on the first call at line 49
\* and later at line 46; the handler (lines 51-56) logs a warning: nothing
\* is slept and the mapping stays empty
wait_for_rate_limit(last_request_time, t) ==
    [sleep |-> 0, last_request_time |-> last_request_time]

\* the strategy types that call _wait_for_rate_limit before page.goto
RATE_LIMITED == {4}

\* the strategy types that call _wait_for_page_ready after a 200 answer
WAITS_PAGE_READY == {1, 2, 3}

\* gotos of one strategy instance: Type 2 loads its page and then every seed
GotosOf(type) == IF type = 2 THEN MaxGotos ELSE 1

\* ------------------------------------------------------- run controller ---
\* the store loop counting a known URL as stored
RECURSIVE StoreLoop_all(_, _, _, _)
StoreLoop_all(fr, new_urls, i, stored_urls) ==
    IF i > Len(new_urls) THEN [frontier |-> fr, stored_urls |-> stored_urls]
    ELSE IF ~exists_in_frontier(fr, new_urls[i].url)
         THEN StoreLoop_all(create_url(fr, new_urls[i]), new_urls, i + 1,
                            Append(stored_urls,
                                   [new_urls[i] EXCEPT !.id = Len(fr) + 1]))
         ELSE StoreLoop_all(fr, new_urls, i + 1,
                            Append(stored_urls, new_urls[i]))

\* CrawlerApp.process_url_at_depth, lines 117-137: the store loop
RECURSIVE StoreLoop(_, _, _, _)
StoreLoop(fr, new_urls, i, stored_urls) ==
    IF i > Len(new_urls) THEN [frontier |-> fr, stored_urls |-> stored_urls]
    ELSE IF ~exists_in_frontier(fr, new_urls[i].url)
         THEN StoreLoop(create_url(fr, new_urls[i]), new_urls, i + 1,
                        Append(stored_urls,
                               [new_urls[i] EXCEPT !.id = Len(fr) + 1]))
         ELSE StoreLoop(fr, new_urls, i + 1, stored_urls)

\* lines 140-141: the targets and the seeds among the stored URLs
target_count(stored_urls) ==
    Cardinality({i \in 1..Len(stored_urls) : stored_urls[i].is_target})

seed_count(stored_urls) ==
    Cardinality({i \in 1..Len(stored_urls) : ~stored_urls[i].is_target})

\* the bookkeeping kept beside the table, extended for the rows inserted
\* since it was taken
Grown(h, fr, new) ==
    [i \in 1..Len(fr) |-> IF i <= Len(h) THEN h[i] ELSE new]

NoOrigin == [batch |-> 0, task |-> 0]

\* the stores and the controller before run_crawler is called
InitStores ==
    /\ frontier = <<>>
    /\ history = <<>>
    /\ handed = <<>>
    /\ origin = <<>>
    /\ logs = <<>>
    /\ pc = "idle"
    /\ run = 0
    /\ rootIdx = 0
    /\ log_id = 0
    /\ current_depth = 0
    /\ urls_to_process = <<>>
    /\ next_level_urls = <<>>
    /\ pos = 0
    /\ last_url = NoUrl
    /\ last_new_urls = <<>>
    /\ bpc = "off"
    /\ batchNo = 0
    /\ tasks = <<>>
    /\ now = 0
    /\ faults = 0
    /\ clock = 0
    /\ session = NoSession
    /\ last_nav = NoTime
    /\ nav_gap = NoTime
    /\ unit = NoCall

Init ==
    /\ web \in WEBS
    /\ okPages \in OK_SETS
    /\ config \in CONFIGS
    /\ order \in URL_ORDERS
    /\ InitStores

\* CrawlerApp.run_crawler is invoked (CrawlerApp.run)
RunCrawler ==
    /\ pc = "idle"
    /\ run < MaxRuns
    /\ run' = run + 1
    /\ rootIdx' = 1
    /\ pc' = "next_root"
    /\ UNCHANGED <<log_id, current_depth, urls_to_process, next_level_urls,
                   pos, last_url, last_new_urls>>
    /\ UNCHANGED <<unit, navVars, envVars, now, faults, storeVars, batchVars>>

\* the loop test without its depth bound
LoopGuard_unbounded(depth, max_depth) == depth >= 0

\* the `while current_depth <= config_url.max_depth` test of
\* process_url_recursively
LoopGuard(depth, max_depth) == depth <= max_depth

\* run_crawler, lines 245-279: the FrontierUrl and the RunLog of the next
\* root, start_processing, and the entry of process_url_recursively
StartRoot ==
    /\ pc = "next_root"
    /\ rootIdx <= Len(config)
    /\ LET url_config == config[rootIdx]
           config_url == FrontierUrl(url_config.url, CATEGORY, url_config.type,
                                     0, url_config.max_depth,
                                     url_config.target_patterns,
                                     url_config.seed_pattern, FALSE, None)
           lg1 == create_log(logs, ConfigUrlLog(config_url))
       IN  /\ log_id' = Len(lg1)
           /\ logs' = start_processing(lg1, Len(lg1))
           /\ urls_to_process' = <<config_url>>
           /\ current_depth' = 0
           /\ next_level_urls' = <<>>
           /\ pos' = 1
           /\ pc' = IF LoopGuard(0, config_url.max_depth)
                    THEN "level" ELSE "root_done"
    /\ UNCHANGED <<run, rootIdx, last_url, last_new_urls>>
    /\ UNCHANGED <<frontier, history, handed, origin>>
    /\ UNCHANGED <<unit, navVars, envVars, faults, batchVars>>
    /\ now' = now + 1

\* the operations of process_url_at_depth's try block that may raise, beside
\* those of the store loop: the PROCESSING write (line 96), increment_counters
\* (line 143), the PROCESSED write (line 152)
STAGES == {"processing", "counters", "processed"}
NoFault == "no_fault"

\* the URLs of new_urls whose iteration of the store loop does not raise
RECURSIVE Surviving(_, _, _)
Surviving(new_urls, i, raising) ==
    IF i > Len(new_urls) THEN <<>>
    ELSE (IF i \in raising THEN <<>> ELSE <<new_urls[i]>>)
         \o Surviving(new_urls, i + 1, raising)

\* process_url_recursively, line 203, with the list of the level replaced
extend_replace(next_level, new_urls) == new_urls

\* process_url_recursively, line 203: next_level_urls.extend(new_urls)
extend(next_level, new_urls) == next_level \o new_urls

\* the warning of line 177
Warning(frontier_url, depth, e) ==
    [url |-> frontier_url.url, depth |-> depth, error |-> e]

\* CrawlerApp.process_url_at_depth for the next URL of the level.
\* raising: the iterations of the store loop in which exists_in_frontier or
\* create_url raises (lines 131-137: counted, nothing stored);
\* stage: the operation of the try block that raises, or NoFault; the
\* handler of lines 159-179 then writes FAILED, adds the warning and
\* returns [].
process_url_at_depth(raising, stage) ==
    /\ pc = "level"
    /\ pos <= Len(urls_to_process)
    /\ urls_to_process[pos].depth = current_depth
    /\ faults + Cardinality(raising) + (IF stage = NoFault THEN 0 ELSE 1)
          <= MaxFaults
    /\ LET frontier_url == urls_to_process[pos]
           has_id == frontier_url.id # NoId
           failed == stage # NoFault
           lg1 == IF current_depth > frontier_url.depth
                  THEN update_status_depth(logs, log_id, "running", current_depth)
                  ELSE logs
           fr1 == IF has_id /\ stage # "processing"
                  THEN update_url_status(frontier, frontier_url.id,
                                         "processing", None)
                  ELSE frontier
           h0 == IF has_id /\ stage # "processing"
                 THEN record_status(history, frontier_url.id, "processing")
                 ELSE history
           h1 == IF has_id
                 THEN record_status(h0, frontier_url.id,
                                    IF failed THEN "failed" ELSE "processed")
                 ELSE history
       IN  /\ stage \in {"processing", "processed"} => has_id
           /\ \E new_urls \in {IF stage = "processing" THEN <<>>
                               ELSE process_single_url(frontier_url)} :
              \E st \in {StoreLoop(fr1, Surviving(new_urls, 1, raising),
                                   1, <<>>)} :
              \E fr2 \in {IF has_id
                          THEN update_url_status(st.frontier, frontier_url.id,
                                   IF failed THEN "failed" ELSE "processed",
                                   IF failed THEN stage ELSE None)
                          ELSE st.frontier} :
              \E lg2 \in {IF stage \in {"processing", "counters"} THEN lg1
                          ELSE increment_counters(lg1, log_id,
                                   target_count(st.stored_urls),
                                   seed_count(st.stored_urls),
                                   Cardinality(raising))} :
                 /\ raising \subseteq 1..Len(new_urls)
                 /\ frontier' = fr2
                 /\ history' = Grown(h1, fr2, <<"pending">>)
                 /\ handed' = Grown(
                        [i \in 1..Len(handed) |->
                            IF i = frontier_url.id /\ stage # "processing"
                            THEN handed[i] + 1
                            ELSE handed[i]],
                        fr2, 0)
                 /\ origin' = Grown(origin, fr2, NoOrigin)
                 /\ logs' = IF failed
                            THEN add_warning(lg2, log_id,
                                     Warning(frontier_url, current_depth, stage))
                            ELSE lg2
                 /\ next_level_urls' =
                        extend(next_level_urls,
                               IF failed THEN <<>> ELSE st.stored_urls)
                 /\ last_url' = frontier_url
                 /\ last_new_urls' = new_urls
    /\ pos' = pos + 1
    /\ faults' = faults + Cardinality(raising)
                        + (IF stage = NoFault THEN 0 ELSE 1)
    /\ UNCHANGED <<pc, run, rootIdx, log_id, current_depth, urls_to_process>>
    /\ UNCHANGED <<unit, navVars, envVars, batchVars>>
    /\ now' = now + 1

\* process_url_at_depth when no operation of the stores raises
ProcessUrlAtDepth == process_url_at_depth({}, NoFault)

\* process_url_recursively, line 197: a URL of another depth is passed over
SkipUrl ==
    /\ pc = "level"
    /\ pos <= Len(urls_to_process)
    /\ urls_to_process[pos].depth # current_depth
    /\ pos' = pos + 1
    /\ UNCHANGED <<pc, run, rootIdx, log_id, current_depth, urls_to_process,
                   next_level_urls, last_url, last_new_urls>>
    /\ UNCHANGED <<unit, navVars, envVars, now, faults, storeVars, batchVars>>

\* process_url_recursively, lines 205-210: the level stored nothing, break
LevelBreak ==
    /\ pc = "level"
    /\ pos > Len(urls_to_process)
    /\ next_level_urls = <<>>
    /\ pc' = "root_done"
    /\ UNCHANGED <<run, rootIdx, log_id, current_depth, urls_to_process,
                   next_level_urls, pos, last_url, last_new_urls>>
    /\ UNCHANGED <<unit, navVars, envVars, now, faults, storeVars, batchVars>>

\* process_url_recursively, lines 212-213 and the loop test of line 187
LevelNext ==
    /\ pc = "level"
    /\ pos > Len(urls_to_process)
    /\ next_level_urls # <<>>
    /\ urls_to_process' = next_level_urls
    /\ next_level_urls' = <<>>
    /\ current_depth' = current_depth + 1
    /\ pos' = 1
    /\ pc' = IF LoopGuard(current_depth + 1, logs[log_id].max_depth)
             THEN "level" ELSE "root_done"
    /\ UNCHANGED <<run, rootIdx, log_id, last_url, last_new_urls>>
    /\ UNCHANGED <<unit, navVars, envVars, now, faults, storeVars, batchVars>>

\* run_crawler, lines 281-285: the root's RunLog is marked COMPLETED
FinishRoot ==
    /\ pc = "root_done"
    /\ logs' = update_status(logs, log_id, "completed", None)
    /\ rootIdx' = rootIdx + 1
    /\ pc' = "next_root"
    /\ UNCHANGED <<run, log_id, current_depth, urls_to_process,
                   next_level_urls, pos, last_url, last_new_urls>>
    /\ UNCHANGED <<frontier, history, handed, origin>>
    /\ UNCHANGED <<unit, navVars, envVars, faults, batchVars>>
    /\ now' = now + 1

\* run_crawler, line 301: every root of the configuration was processed
FinishRun ==
    /\ pc = "next_root"
    /\ rootIdx > Len(config)
    /\ pc' = "idle"
    /\ UNCHANGED <<run, rootIdx, log_id, current_depth, urls_to_process,
                   next_level_urls, pos, last_url, last_new_urls>>
    /\ UNCHANGED <<unit, navVars, envVars, now, faults, storeVars, batchVars>>

Next ==
    \/ RunCrawler
    \/ StartRoot
    \/ ProcessUrlAtDepth
    \/ SkipUrl
    \/ LevelBreak
    \/ LevelNext
    \/ FinishRoot
    \/ FinishRun

Spec == Init /\ [][Next]_vars

\* the event loop runs the controller's coroutine to completion; the web
\* is the one whose pages link to themselves and to each other, its links
\* listed in one order
InitFair ==
    /\ Init
    /\ web = WEB_CYCLE
    /\ okPages = URLS
    /\ order = <<"t1", "r1", "s1", "t2", "s2", "r2">>

FairSpec == InitFair /\ [][Next]_vars /\ WF_vars(Next)

\* ------------------------------------------- the controller under faults ---
\* process_url_at_depth in which store operations raise and are trapped
ProcessUrlFaulty ==
    \E raising \in SUBSET (1..Cardinality(URLS)) :
    \E stage \in STAGES \cup {NoFault} :
        /\ raising # {} \/ stage # NoFault
        /\ process_url_at_depth(raising, stage)

\* process_url_at_depth in which increment_counters raises and then, in the
\* handler, add_warning raises: the exception leaves process_url_at_depth,
\* process_url_recursively (lines 215-228) and run_crawler (lines 292-299,
\* 303-305), each of which re-raises.  marked: the update_status(FAILED) of
\* these handlers succeeded.
ProcessUrlAborts(marked) ==
    /\ pc = "level"
    /\ pos <= Len(urls_to_process)
    /\ urls_to_process[pos].depth = current_depth
    /\ faults + 2 <= MaxFaults
    /\ LET frontier_url == urls_to_process[pos]
           has_id == frontier_url.id # NoId
           fr1 == IF has_id
                  THEN update_url_status(frontier, frontier_url.id,
                                         "processing", None)
                  ELSE frontier
           h1 == IF has_id
                 THEN record_status(record_status(history, frontier_url.id,
                                                  "processing"),
                                    frontier_url.id, "failed")
                 ELSE history
       IN  \E new_urls \in {process_single_url(frontier_url)} :
           \E st \in {StoreLoop(fr1, new_urls, 1, <<>>)} :
           \E fr2 \in {IF has_id
                       THEN update_url_status(st.frontier, frontier_url.id,
                                              "failed", "counters")
                       ELSE st.frontier} :
              /\ frontier' = fr2
              /\ history' = Grown(h1, fr2, <<"pending">>)
              /\ handed' = Grown(
                     [i \in 1..Len(handed) |->
                         IF i = frontier_url.id THEN handed[i] + 1
                         ELSE handed[i]],
                     fr2, 0)
              /\ origin' = Grown(origin, fr2, NoOrigin)
              /\ last_url' = frontier_url
              /\ last_new_urls' = new_urls
    /\ logs' = IF marked
               THEN update_status(logs, log_id, "failed", "add_warning")
               ELSE logs
    /\ pc' = "crashed"
    /\ faults' = faults + 2
    /\ now' = now + 1
    /\ UNCHANGED <<run, rootIdx, log_id, current_depth, urls_to_process,
                   next_level_urls, pos>>
    /\ UNCHANGED <<unit, navVars, envVars, batchVars>>

\* run_crawler, lines 274-299: start_processing raises; the handler writes
\* FAILED (marked) or raises in its turn, and re-raises
StartRootAborts(marked) ==
    /\ pc = "next_root"
    /\ rootIdx <= Len(config)
    /\ faults + 1 <= MaxFaults
    /\ LET url_config == config[rootIdx]
           config_url == FrontierUrl(url_config.url, CATEGORY, url_config.type,
                                     0, url_config.max_depth,
                                     url_config.target_patterns,
                                     url_config.seed_pattern, FALSE, None)
           lg1 == create_log(logs, ConfigUrlLog(config_url))
       IN  /\ log_id' = Len(lg1)
           /\ logs' = IF marked
                      THEN update_status(lg1, Len(lg1), "failed",
                                         "start_processing")
                      ELSE lg1
    /\ pc' = "crashed"
    /\ faults' = faults + 1
    /\ now' = now + 1
    /\ UNCHANGED <<run, rootIdx, current_depth, urls_to_process,
                   next_level_urls, pos, last_url, last_new_urls>>
    /\ UNCHANGED <<frontier, history, handed, origin>>
    /\ UNCHANGED <<unit, navVars, envVars, batchVars>>

NextFault ==
    \/ Next
    \/ ProcessUrlFaulty
    \/ \E marked \in BOOLEAN : ProcessUrlAborts(marked)
    \/ \E marked \in BOOLEAN : StartRootAborts(marked)

\* the runs under faults start from one web and one iteration order, with
\* roots of type 1 and of type 2 with two levels of seeds
InitFault ==
    /\ Init
    /\ web = WEB_CYCLE
    /\ \A i \in DOMAIN config :
          <<config[i].type, config[i].max_depth>> \in {<<1, 0>>, <<2, 2>>}
    /\ order = <<"t1", "r1", "s1", "t2", "s2", "r2">>

SpecFault == InitFault /\ [][NextFault]_vars

\* ------------------------------------------------- timed navigations ---
\* every URL of the web is of one registrable domain.
\* Crawler.process_single_url, lines 213-219: a page and a fresh strategy
\* instance per URL
NavNewSession(type) ==
    /\ ~session.open
    /\ session' = [open |-> TRUE, type |-> type, last_request_time |-> NoTime,
                   ready_at |-> clock, gotos |-> 0]
    /\ UNCHANGED <<clock, last_nav, nav_gap>>
    /\ UNCHANGED <<unit, envVars, storeVars, ctlVars, batchVars, now, faults>>

\* the strategy's page.goto(u), after _wait_for_rate_limit for Type 4.
\* After a 200 answer: ready, _wait_for_page_ready reached its
\* wait_for_timeout (an exception before it is trapped, lines 436-440);
\* dynamic, the seconds spent in _handle_dynamic_elements (none when the
\* calls on the page raise at once, each trapped).  After another answer
\* the strategy goes on at once (type_2.py lines 31-32)
NavGoto(u, ready, dynamic) ==
    /\ session.open
    /\ session.gotos < GotosOf(session.type)
    /\ clock >= session.ready_at
    /\ LET w == IF session.type \in RATE_LIMITED
                THEN wait_for_rate_limit(session.last_request_time, clock)
                ELSE [sleep |-> 0,
                      last_request_time |-> session.last_request_time]
           t == clock + w.sleep
           settle == IF u \in okPages /\ session.type \in WAITS_PAGE_READY
                     THEN (IF ready THEN PAGE_READY_WAIT ELSE 0) + dynamic
                     ELSE 0
       IN  /\ t <= MaxClock
           /\ clock' = t
           /\ nav_gap' = IF last_nav = NoTime THEN NoTime ELSE t - last_nav
           /\ last_nav' = t
           /\ session' = [session EXCEPT
                              !.last_request_time = w.last_request_time,
                              !.ready_at = t + settle,
                              !.gotos = @ + 1]
    /\ UNCHANGED <<unit, envVars, storeVars, ctlVars, batchVars, now, faults>>

\* Crawler.process_single_url, line 237: page.close()
NavClose ==
    /\ session.open
    /\ clock >= session.ready_at
    /\ session' = NoSession
    /\ UNCHANGED <<clock, last_nav, nav_gap>>
    /\ UNCHANGED <<unit, envVars, storeVars, ctlVars, batchVars, now, faults>>

\* a second passes
NavTick ==
    /\ clock < MaxClock
    /\ clock' = clock + 1
    /\ UNCHANGED <<session, last_nav, nav_gap>>
    /\ UNCHANGED <<unit, envVars, storeVars, ctlVars, batchVars, now, faults>>

InitNav ==
    /\ InitFair
    /\ config = <<UrlConfig("r1", <<2, 2, "year">>)>>

NextNav ==
    \/ \E type \in 0..4 : NavNewSession(type)
    \/ \E u \in URLS, ready \in BOOLEAN, dynamic \in {0, SELECTOR_TIMEOUT} :
          NavGoto(u, ready, dynamic)
    \/ NavClose
    \/ NavTick

SpecNav == InitNav /\ [][NextNav]_vars

\* ------------------------------------------- calls examined alone ---
\* the lists of patterns of a configuration entry
PATTERN_LISTS ==
    {<<>>} \cup {<<p>> : p \in {"pdf", "year", "bad"}}
           \cup {<<p, q>> : p, q \in {"pdf", "year", "bad"}}

\* Type0Strategy.execute on a configured root
Type0Call ==
    \E url \in URLS, patterns \in PATTERN_LISTS :
    \E status \in {200, 404}, content_type \in CONTENT_TYPES :
       LET fu == FrontierUrl(url, CATEGORY, 0, 0, 0, patterns, None, FALSE,
                             None)
       IN  /\ unit = NoCall
           /\ unit' = [op |-> "type0", fu |-> fu, status |-> status,
                       content_type |-> content_type,
                       is_target |-> Type0IsTarget(fu, status, content_type),
                       new_urls |-> Type0Execute(fu, FALSE, frontier)]
           /\ UNCHANGED <<navVars, envVars, storeVars, ctlVars, batchVars,
                          now, faults>>

\* the target filter of a loaded page: CrawlerStrategy._is_target_url over
\* the links (Types 1, 2, 3) and the final-depth collection of Type 4
ClassifyCall ==
    \E page \in URLS, patterns \in PATTERN_LISTS :
       /\ unit = NoCall
       /\ unit' = [op |-> "classify", page |-> page, patterns |-> patterns,
                   base |-> {u \in page_urls(page) :
                               _is_target_url(u, patterns)},
                   final |-> final_depth_links(page_urls(page), patterns)]
       /\ UNCHANGED <<navVars, envVars, storeVars, ctlVars, batchVars,
                      now, faults>>

\* a URL text found in a page is extracted on one of the ways
ExtractCall ==
    \E url \in RAW_URLS, via \in EXTRACTIONS :
       /\ unit = NoCall
       /\ extracted(via, url)
       /\ unit' = [op |-> "extract", via |-> via, raw |-> url,
                   url |-> extract(via, url)]
       /\ UNCHANGED <<navVars, envVars, storeVars, ctlVars, batchVars,
                      now, faults>>

\* the items of one answer of the classifier
MaxItems == 2

\* one answer of the classifier is turned into the target set and the seed
\* set, by Type3Strategy and by the base class
AnalyzeCall ==
    \E mode \in AI_MODES :
    \E items \in {its \in SUBSET ITEMS : Cardinality(its) <= MaxItems} :
       /\ unit = NoCall
       /\ unit' = [op |-> "analyze", mode |-> mode, items |-> items,
                   type3 |-> Type3_analyze_with_scrapegraph(mode, items),
                   base |-> Base_analyze_with_scrapegraph(mode, items)]
       /\ UNCHANGED <<navVars, envVars, storeVars, ctlVars, batchVars,
                      now, faults>>

InitUnit ==
    /\ Init
    /\ okPages = URLS
    /\ order = <<"t1", "r1", "s1", "t2", "s2", "r2">>
    /\ config = <<UrlConfig("r1", <<2, 2, "year">>)>>

NextUnit ==
    \/ Type0Call
    \/ ClassifyCall
    \/ ExtractCall
    \/ AnalyzeCall

SpecUnit == InitUnit /\ [][NextUnit]_vars

\* ------------------------------------------------------------ Crawler.run --
\* FrontierCRUD.create_urls_batch: one INSERT of every URL of the batch,
\* each with status PENDING
RECURSIVE create_urls_batch(_, _, _)
create_urls_batch(fr, urls, i) ==
    IF i > Len(urls) THEN fr
    ELSE create_urls_batch(create_url(fr, urls[i]), urls, i + 1)

\* FrontierCRUD.get_pending_urls(limit): the oldest PENDING rows
RECURSIVE get_pending_urls(_, _, _)
get_pending_urls(fr, i, limit) ==
    IF i > Len(fr) \/ limit = 0 THEN <<>>
    ELSE IF fr[i].status = "pending"
         THEN <<fr[i]>> \o get_pending_urls(fr, i + 1, limit - 1)
         ELSE get_pending_urls(fr, i + 1, limit)

\* initialize_frontier of the batch entry point: the configured roots are
\* inserted with create_urls_batch before Crawler.run starts
RootUrls(cfg) ==
    [i \in 1..Len(cfg) |->
        FrontierUrl(cfg[i].url, CATEGORY, cfg[i].type, 0, cfg[i].max_depth,
                    cfg[i].target_patterns, cfg[i].seed_pattern, FALSE, None)]

BATCH_CONFIGS ==
    { c \in CONFIGS : /\ \A i \in 1..Len(c) : c[i].type # 4
                      /\ \A i, j \in 1..Len(c) : c[i].url = c[j].url => i = j }

InitBatch ==
    /\ web \in WEBS
    /\ okPages \in OK_SETS
    /\ config \in BATCH_CONFIGS
    /\ order \in URL_ORDERS
    /\ frontier = create_urls_batch(<<>>, RootUrls(config), 1)
    /\ history = [i \in 1..Len(config) |-> <<"pending">>]
    /\ handed = [i \in 1..Len(config) |-> 0]
    /\ origin = [i \in 1..Len(config) |-> NoOrigin]
    /\ logs = <<>>
    /\ pc = "off"
    /\ run = 0
    /\ rootIdx = 0
    /\ log_id = 0
    /\ current_depth = 0
    /\ urls_to_process = <<>>
    /\ next_level_urls = <<>>
    /\ pos = 0
    /\ last_url = NoUrl
    /\ last_new_urls = <<>>
    /\ bpc = "idle"
    /\ batchNo = 0
    /\ tasks = <<>>
    /\ now = 0
    /\ faults = 0
    /\ clock = 0
    /\ session = NoSession
    /\ last_nav = NoTime
    /\ nav_gap = NoTime
    /\ unit = NoCall

\* Crawler.__init__, line 30: the limit of pages stored by the crawler and
\* read nowhere.  Scaled like BatchSize: the defaults are 5 pages for a
\* batch_size of 10 (settings.py lines 48, 52)
max_concurrent_pages == 1

\* Crawler.run, lines 260-274: a batch of pending rows, one task per row
BatchTake ==
    /\ bpc = "idle"
    /\ batchNo < MaxBatches
    /\ LET pending_urls == get_pending_urls(frontier, 1, BatchSize)
       IN  /\ pending_urls # <<>>
           /\ tasks' = [i \in 1..Len(pending_urls) |->
                          [fu |-> pending_urls[i], pc |-> "created",
                           page |-> "none",
                           new_urls |-> <<>>, seeds |-> <<>>, seed |-> NoUrl]]
    /\ bpc' = "gather"
    /\ batchNo' = batchNo + 1
    /\ UNCHANGED <<unit, navVars, envVars, now, faults, storeVars, ctlVars>>

\* Crawler.run, lines 264-266: no pending row, the loop ends
BatchExit ==
    /\ bpc = "idle"
    /\ get_pending_urls(frontier, 1, BatchSize) = <<>>
    /\ bpc' = "finished"
    /\ UNCHANGED <<batchNo, tasks>>
    /\ UNCHANGED <<unit, navVars, envVars, now, faults, storeVars, ctlVars>>

\* Crawler._process_url, line 133: browser_context.new_page(); when it
\* raises, the outer handler only logs
TaskNewPage(t, created) ==
    /\ bpc = "gather"
    /\ tasks[t].pc = "created"
    /\ tasks' = [tasks EXCEPT ![t].pc = IF created THEN "loading" ELSE "done",
                              ![t].page = IF created THEN "open" ELSE @]
    /\ handed' = IF created
                 THEN [handed EXCEPT ![tasks[t].fu.id] = @ + 1]
                 ELSE handed
    /\ UNCHANGED <<frontier, history, origin, logs, bpc, batchNo>>
    /\ UNCHANGED <<unit, navVars, envVars, now, faults, ctlVars>>

\* Type3Strategy.execute reaches its own update_url_status(PROCESSED)
\* (line 285) unless it returned early
StrategyMarksProcessed(fu) ==
    /\ fu.url_type = 3
    /\ fu.target_patterns # <<>>
    /\ fu.max_depth = 2
    /\ fu.depth \in 0..2

\* page.close() placed at the end of the try block instead of the finally
page_close_in_try(page, raised) == IF raised THEN page ELSE "closed"

\* Crawler._process_url, lines 184-185: `finally: await page.close()`, run
\* whether or not the try block raised
page_close(page, raised) == "closed"

\* Crawler._process_url, lines 153-185, after strategy.execute returned
\* new_urls: the batch insert, the status of the row, page.close();
\* insert_raises: create_urls_batch raises and rolls back
FinishTask(t, new_urls, insert_raises) ==
    LET fu  == tasks[t].fu
        fr0 == IF StrategyMarksProcessed(fu)
               THEN update_url_status(frontier, fu.id, "processed", None)
               ELSE frontier
        h0  == IF StrategyMarksProcessed(fu)
               THEN record_status(history, fu.id, "processed")
               ELSE history
        fr1 == IF insert_raises
               THEN update_url_status(fr0, fu.id, "failed", "insert")
               ELSE update_url_status(
                        create_urls_batch(fr0, new_urls, 1),
                        fu.id, "processed", None)
        h1  == record_status(h0, fu.id,
                             IF insert_raises THEN "failed" ELSE "processed")
    IN  /\ insert_raises => new_urls # <<>>
        /\ frontier' = fr1
        /\ history' = Grown(h1, fr1, <<"pending">>)
        /\ handed' = Grown(handed, fr1, 0)
        /\ origin' = Grown(origin, fr1, [batch |-> batchNo, task |-> t])
        /\ tasks' = [tasks EXCEPT ![t].pc = "done", ![t].new_urls = new_urls,
                                  ![t].page = page_close(@, insert_raises),
                                  ![t].seeds = <<>>, ![t].seed = NoUrl]

\* Type2Strategy.execute, lines 111-133: the seed loop up to the next
\* page.goto of a seed page, or to its end
RECURSIVE NextSeed(_, _)
NextSeed(seeds, i) ==
    IF i > Len(seeds) THEN 0
    ELSE IF exists_in_frontier(frontier, seeds[i]) THEN NextSeed(seeds, i + 1)
         ELSE i

SeedLoop(t, new_urls, seeds, insert_raises) ==
    LET k == NextSeed(seeds, 1)
    IN  IF k = 0 THEN FinishTask(t, new_urls, insert_raises)
        ELSE LET seed_frontier_url ==
                     create_frontier_url(seeds[k], tasks[t].fu, FALSE)
             IN  /\ ~insert_raises
                 /\ tasks' = [tasks EXCEPT
                        ![t].pc = "seed_loading",
                        ![t].new_urls = Append(new_urls, seed_frontier_url),
                        ![t].seeds = SubSeq(seeds, k + 1, Len(seeds)),
                        ![t].seed = seed_frontier_url]
                 /\ UNCHANGED <<frontier, history, handed, origin>>

\* the task resumes after the page of its row was loaded; the strategy runs
\* to its next page.goto or to its end (Crawler._process_url, line 151)
TaskPageLoaded(t, insert_raises) ==
    /\ bpc = "gather"
    /\ tasks[t].pc = "loading"
    /\ LET fu == tasks[t].fu
       IN  CASE fu.url_type = 0 ->
                  FinishTask(t, Type0Execute(fu, TRUE, frontier), insert_raises)
             [] fu.url_type = 1 ->
                  FinishTask(t, Type1Execute(fu, TRUE, frontier), insert_raises)
             [] fu.url_type = 2 ->
                  IF fu.target_patterns = <<>>
                  THEN FinishTask(t, <<>>, insert_raises)
                  ELSE LET page == _extract_page_urls(fu.url, fu)
                           found == Type2Targets(page, fu, TRUE, frontier)
                       IN  IF fu.depth < fu.max_depth
                           THEN SeedLoop(t, found, SetToSeq(page.seeds),
                                         insert_raises)
                           ELSE FinishTask(t, found, insert_raises)
             [] OTHER ->
                  FinishTask(t, Type3Execute(fu, TRUE, frontier), insert_raises)
    /\ UNCHANGED <<logs, bpc, batchNo>>
    /\ UNCHANGED <<unit, navVars, envVars, now, faults, ctlVars>>

\* the task resumes after the page of a seed was loaded
\* (Type2Strategy.execute, lines 121-143)
TaskSeedLoaded(t, insert_raises) ==
    /\ bpc = "gather"
    /\ tasks[t].pc = "seed_loading"
    /\ LET fu == tasks[t].fu
           seed_targets == _extract_page_urls(tasks[t].seed.url, fu)
           found == Type2Targets(seed_targets, tasks[t].seed, TRUE, frontier)
       IN  SeedLoop(t, tasks[t].new_urls \o found, tasks[t].seeds,
                    insert_raises)
    /\ UNCHANGED <<logs, bpc, batchNo>>
    /\ UNCHANGED <<unit, navVars, envVars, now, faults, ctlVars>>

\* Crawler.run, line 274: asyncio.gather returns, the loop takes the next batch
GatherDone ==
    /\ bpc = "gather"
    /\ \A t \in 1..Len(tasks) : tasks[t].pc = "done"
    /\ bpc' = "idle"
    /\ UNCHANGED <<batchNo, tasks>>
    /\ UNCHANGED <<unit, navVars, envVars, now, faults, storeVars, ctlVars>>

NextBatch ==
    \/ BatchTake
    \/ BatchExit
    \/ \E t \in 1..Len(tasks) : \E created \in BOOLEAN : TaskNewPage(t, created)
    \/ \E t \in 1..Len(tasks) : \E r \in BOOLEAN : TaskPageLoaded(t, r)
    \/ \E t \in 1..Len(tasks) : \E r \in BOOLEAN : TaskSeedLoaded(t, r)
    \/ GatherDone

SpecBatch == InitBatch /\ [][NextBatch]_vars

TypeOK ==
    /\ Len(history) = Len(frontier)
    /\ Len(handed) = Len(frontier)
    /\ Len(origin) = Len(frontier)
    /\ \A i \in 1..Len(frontier) : frontier[i].id = i

\* ================================================================ claims ==
Rows == 1..Len(frontier)
RowsWithUrl(u) == {i \in Rows : frontier[i].url = u}
Terminal == {"processed", "failed"}

\* C1: in the run-controller path no two frontier rows have the same url,
\* after any number of roots and runs, also when one strategy result holds
\* a URL twice or several pages link to the same URL
C1_UniqueUrl ==
    \A i, j \in Rows : frontier[i].url = frontier[j].url => i = j

\* a strategy result that holds one URL twice has been stored, in a later run
C1_Witness ==
    /\ run = MaxRuns
    /\ \E i, j \in 1..Len(last_new_urls) :
          /\ i < j
          /\ last_new_urls[i].url = last_new_urls[j].url
          /\ Cardinality(RowsWithUrl(last_new_urls[i].url)) = 1
    /\ Len(frontier) >= 3

\* C2: in the batch path two tasks of one gather that discover the same URL,
\* not yet in the frontier, produce exactly one new row for it
C2_OneRowPerDiscoveredUrl ==
    \A i, j \in Rows :
        /\ frontier[i].url = frontier[j].url
        /\ origin[i].batch > 0
        /\ origin[i].batch = origin[j].batch
        /\ origin[i].task # origin[j].task
        => i = j

\* C3: every status written to a frontier row follows PENDING -> PROCESSING,
\* PROCESSING -> PROCESSED, PROCESSING -> FAILED or PENDING -> SKIPPED, so a
\* PROCESSED row was PROCESSING before
AllowedTransitions ==
    { <<"pending", "processing">>, <<"processing", "processed">>,
      <<"processing", "failed">>, <<"pending", "skipped">> }

C3_StatusTransitions ==
    \A i \in Rows : \A k \in 1..(Len(history[i]) - 1) :
        <<history[i][k], history[i][k + 1]>> \in AllowedTransitions

\* C4: once a row is PROCESSED or FAILED no later operation changes its
\* status and the row is not handed to a strategy again
C4_TerminalIsFinal ==
    \A i \in Rows :
        /\ \A k \in 1..(Len(history[i]) - 1) :
              history[i][k] \in Terminal => history[i][k + 1] = history[i][k]
        /\ handed[i] <= 1

\* C5 as stated: every admitted entry has depth <= max_depth, and the
\* subtree of a Type-2 root with max_depth 1 holds no entry deeper than 1
C5_DepthWithinMax ==
    \A i \in Rows : frontier[i].depth <= frontier[i].max_depth

\* C5 amended: every admitted entry has depth <= max_depth + 1, an entry at
\* depth max_depth + 1 is a target, and the subtree of a Type-2 root with
\* max_depth 1 holds no entry deeper than 2
C5_DepthWithinMaxPlusOne ==
    \A i \in Rows :
        /\ frontier[i].depth <= frontier[i].max_depth + 1
        /\ frontier[i].depth = frontier[i].max_depth + 1 => frontier[i].is_target
        /\ frontier[i].url_type = 2 /\ frontier[i].max_depth = 1
              => frontier[i].depth <= 2

\* a target found on a seed page of a Type-2 root sits at depth 2
C5_Witness ==
    \E i \in Rows :
        /\ frontier[i].url_type = 2
        /\ frontier[i].max_depth = 1
        /\ frontier[i].depth = 2
        /\ frontier[i].is_target

\* C6: a child built by a strategy has the category, url_type, max_depth,
\* target_patterns and seed_pattern of its admitting parent, depth =
\* parent.depth + 1 and parent_url = the parent's URL; the parent of a target
\* found on a Type-2 seed page is the seed
Inherits(c, p) ==
    /\ c.category = p.category
    /\ c.url_type = p.url_type
    /\ c.max_depth = p.max_depth
    /\ c.target_patterns = p.target_patterns
    /\ c.seed_pattern = p.seed_pattern
    /\ c.depth = p.depth + 1
    /\ c.parent_url = p.url

FoundOn(c, p) ==
    c.url \in web.links[p.url] \cup web.aiT[p.url] \cup web.aiS[p.url]

C6_ChildInheritsParent ==
    last_url # NoUrl =>
        \A i \in 1..Len(last_new_urls) :
            LET c == last_new_urls[i]
            IN  \/ Inherits(c, last_url) /\ FoundOn(c, last_url)
                \/ /\ last_url.url_type = 2
                   /\ \E j \in 1..(i - 1) :
                        LET seed == last_new_urls[j]
                        IN  /\ ~seed.is_target
                            /\ Inherits(seed, last_url)
                            /\ Inherits(c, seed)
                            /\ FoundOn(c, seed)

\* a Type-2 page returned a target that only its seed page links
C6_Witness ==
    /\ last_url # NoUrl
    /\ last_url.url_type = 2
    /\ \E i \in 1..Len(last_new_urls) :
          /\ last_new_urls[i].is_target
          /\ last_new_urls[i].depth = last_url.depth + 2
          /\ last_new_urls[i].url \notin web.links[last_url.url]

\* C7: when the run of a root is over, the frontier holds a row for the root
\* URL with depth 0, no parent_url and a terminal status
C7_RootAdmitted ==
    pc = "root_done" =>
        \E i \in Rows :
            /\ frontier[i].url = logs[log_id].url
            /\ frontier[i].depth = 0
            /\ frontier[i].parent_url = None
            /\ frontier[i].status \in Terminal

\* C8: a second run of the same configuration against the same web admits
\* nothing, changes no status, and its RunLogs report target = 0, seed = 0
C8_ReplayAdmitsNothing ==
    [][run >= 2 =>
         /\ frontier' = frontier
         /\ \A l \in (Len(config) + 1)..Len(logs') :
               /\ logs'[l].target_urls_found = 0
               /\ logs'[l].seed_urls_found = 0]_vars

\* the second run is over, and in it a strategy returned URLs
C8_Witness ==
    /\ run = 2
    /\ pc = "idle"
    /\ Len(last_new_urls) >= 2
    /\ Len(logs) = 2 * Len(config)

\* C9: process_url_recursively terminates for every root, on graphs with
\* cycles and self links too: the loop is left only by its return and is
\* not run forever; it never processes a level deeper than max_depth and
\* leaves the loop as soon as a level stored nothing
C9_Terminates ==
    /\ [](pc = "level" => current_depth <= logs[log_id].max_depth)
    /\ [][pc = "level" => pc' \in {"level", "root_done"}]_vars
    /\ [][(pc = "level" /\ pos > Len(urls_to_process) /\ next_level_urls = <<>>)
             => pc' = "root_done"]_vars
    /\ []<>(pc # "level")

\* the loop ended by its depth test on a web whose pages link to themselves
\* and to each other
C9_Witness ==
    /\ pc = "root_done"
    /\ web = WEB_CYCLE
    /\ current_depth = logs[log_id].max_depth + 1
    /\ current_depth >= 2

\* C10: a row whose page fetch failed ends FAILED with an error_message
C10_FetchFailureFails ==
    \A i \in Rows :
        /\ handed[i] > 0
        /\ frontier[i].url \notin okPages
        /\ frontier[i].url_type \in {1, 2, 3}
        /\ ~(bpc = "gather" /\ \E t \in 1..Len(tasks) :
                tasks[t].fu.id = i /\ tasks[t].pc # "done")
        => /\ frontier[i].status = "failed"
           /\ frontier[i].error_message # None

\* a step of process_url_at_depth for the URL at pos of the current level
ProcessStep ==
    /\ pc = "level"
    /\ pos <= Len(urls_to_process)
    /\ urls_to_process[pos].depth = current_depth
    /\ pos' = pos + 1

\* the rows a step inserted
NewRows == (Len(frontier) + 1)..Len(frontier')

\* C13: increment_counters adds: after every process_url_at_depth call the
\* RunLog's target_urls_found and seed_urls_found are their former values
\* plus the targets and seeds the call admitted, and no counter decreases
C13_CountersAccumulate ==
    [][ProcessStep =>
         /\ logs'[log_id].target_urls_found =
               logs[log_id].target_urls_found
               + Cardinality({i \in NewRows : frontier'[i].is_target})
         /\ logs'[log_id].seed_urls_found =
               logs[log_id].seed_urls_found
               + Cardinality({i \in NewRows : ~frontier'[i].is_target})
         /\ logs'[log_id].failed_urls >= logs[log_id].failed_urls]_vars

\* C14: every RunLog has total_urls_found = target_urls_found +
\* seed_urls_found, after every increment_counters call and at run end
C14_TotalIsSum ==
    \A l \in 1..Len(logs) :
        logs[l].total_urls_found =
            logs[l].target_urls_found + logs[l].seed_urls_found

\* increment_counters has written a RunLog with targets and seeds
C14_Witness ==
    \E l \in 1..Len(logs) :
        /\ logs[l].target_urls_found >= 1
        /\ logs[l].seed_urls_found >= 1
        /\ logs[l].total_urls_found >= 2

\* C18: after the controller processed a URL at a depth level, the RunLog's
\* reached_depth is that level (the greatest processed so far, the levels
\* being processed in ascending order); reached_depth never decreases and
\* never exceeds max_depth
C18_ReachedDepth ==
    [][/\ ProcessStep => logs'[log_id].reached_depth = current_depth
       /\ \A l \in 1..Len(logs) :
             /\ logs'[l].reached_depth >= logs[l].reached_depth
             /\ logs'[l].reached_depth <= logs'[l].max_depth]_vars

\* C16: a RunLog in a terminal status has its end_time set and its
\* processing_duration equal to end_time minus the start_time recorded by
\* start_processing
C16_DurationRecorded ==
    \A l \in 1..Len(logs) :
        logs[l].status \in TERMINAL_LOG_STATUS =>
            /\ logs[l].start_time # NoTime
            /\ logs[l].end_time # NoTime
            /\ logs[l].processing_duration =
                  logs[l].end_time - logs[l].start_time

\* a step of process_url_at_depth in which the URL failed: its page did not
\* answer 200, or a store operation raised and was trapped
UrlFailed ==
    \/ faults' > faults
    \/ /\ urls_to_process[pos].url \notin okPages
       /\ urls_to_process[pos].url_type \in {1, 2, 3}

\* C11: a failure while processing one URL does not abort the run: the loop
\* stays in the level with its remaining URLs, the URLs collected for the
\* next level are kept, the root and the configuration are unchanged and
\* every row admitted before stays in the frontier
C11_FailureDoesNotAbort ==
    [][(ProcessStep /\ UrlFailed) =>
          /\ pc' = "level"
          /\ urls_to_process' = urls_to_process
          /\ current_depth' = current_depth
          /\ rootIdx' = rootIdx /\ config' = config
          /\ Len(next_level_urls') >= Len(next_level_urls)
          /\ SubSeq(next_level_urls', 1, Len(next_level_urls)) = next_level_urls
          /\ Len(frontier') >= Len(frontier)
          /\ \A i \in Rows : frontier'[i].url = frontier[i].url]_vars

\* a URL failed in the run of a root, a later URL of the level was processed
\* and the next root was started
C11_Witness ==
    /\ Len(logs) >= 2
    /\ logs[1].warning_messages # <<>>
    /\ logs[1].status = "completed"
    /\ logs[2].status = "running"
    /\ Len(frontier) >= 2

\* C12: when the processing of a root raises at the controller level, the
\* root's RunLog is FAILED and the controller goes on with the next root
C12_FaultedRootIsSkipped ==
    [][(faults' > faults /\ pc' # pc) =>
          /\ logs'[log_id'].status = "failed"
          /\ pc' = "next_root"
          /\ rootIdx' = rootIdx + 1]_vars

\* C15: a RunLog that is finished with failed_urls > 0 and at least one
\* target admitted has status PARTIALLY_COMPLETED
C15_PartiallyCompleted ==
    \A l \in 1..Len(logs) :
        /\ logs[l].status \in TERMINAL_LOG_STATUS
        /\ logs[l].failed_urls > 0
        /\ logs[l].target_urls_found >= 1
        => logs[l].status = "partially_completed"

\* C17: add_warning appends: a step that changes a RunLog's warning_messages
\* leaves the former list followed by one more message
C17_WarningsAppend ==
    [][\A l \in 1..Len(logs) :
          logs'[l].warning_messages # logs[l].warning_messages =>
             /\ Len(logs'[l].warning_messages)
                   = Len(logs[l].warning_messages) + 1
             /\ SubSeq(logs'[l].warning_messages, 1,
                       Len(logs[l].warning_messages))
                   = logs[l].warning_messages]_vars

\* the tasks of the batch that hold an open browser page: between
\* browser_context.new_page() and page.close() in Crawler._process_url
OpenPages == {t \in DOMAIN tasks : tasks[t].pc \notin {"created", "done"}}

\* C19: at any time at most max_concurrent_pages browser pages are open
C19_PagesBounded == Cardinality(OpenPages) <= max_concurrent_pages

\* C20: between two consecutive navigations to the domain at least the
\* minimum spacing elapses
C20_MinSpacing == nav_gap = NoTime \/ nav_gap >= MIN_SPACING

\* the RunLogs with status RUNNING
RunningLogs == {l \in 1..Len(logs) : logs[l].status = "running"}

\* C22: roots are processed one at a time: at most one RunLog is RUNNING,
\* and when the RunLog of a root is created the RunLog of every earlier
\* root is COMPLETED or FAILED
C22_OneRootAtATime ==
    /\ [](Cardinality(RunningLogs) <= 1)
    /\ [][Len(logs') > Len(logs) =>
             \A l \in 1..Len(logs) :
                 logs[l].status \in {"completed", "failed"}]_vars

\* the RunLog of a second root is RUNNING after the first root has ended
C22_Witness ==
    /\ Len(logs) >= 2
    /\ logs[1].status = "completed"
    /\ logs[2].status = "running"
    /\ logs[1].url # logs[2].url

\* the links of page u that a regex of patterns matches, u itself excluded
TargetLinks(u, patterns) ==
    {v \in web.links[u] \ {u} :
        \E i \in 1..Len(patterns) :
            patterns[i] \notin INVALID_REGEX /\ v \in REGEX_LANG[patterns[i]]}

UrlsOf(seq) == {seq[i].url : i \in 1..Len(seq)}

\* a task of Crawler.run whose Type-1 page answered 200 ends its strategy
Type1Returns(t) ==
    /\ bpc = "gather" /\ bpc' = "gather"
    /\ tasks[t].pc = "loading" /\ tasks'[t].pc = "done"
    /\ tasks[t].fu.url_type = 1
    /\ tasks[t].fu.url \in okPages
    /\ tasks[t].fu.target_patterns # <<>>

C25_Type0Target ==
    unit.op = "type0" =>
       /\ unit.new_urls = <<>>
       /\ unit.is_target =>
             /\ \E i \in 1..Len(unit.fu.target_patterns) :
                   /\ unit.fu.target_patterns[i] \notin INVALID_REGEX
                   /\ unit.fu.url \in REGEX_LANG[unit.fu.target_patterns[i]]
             /\ unit.status = 200
             /\ \/ is_document(unit.content_type)
                \/ has_doc_extension(unit.fu.url)

\* C26: an invalid regex matches nothing: the links kept by every target
\* filter are those that a valid pattern of the list matches
C26_InvalidRegexSkipped ==
    unit.op = "classify" =>
       LET kept == {u \in web.links[unit.page] :
                       \E i \in 1..Len(unit.patterns) :
                          /\ unit.patterns[i] \notin INVALID_REGEX
                          /\ u \in REGEX_LANG[unit.patterns[i]]}
       IN  /\ unit.base = kept
           /\ unit.final = kept

\* C27: a URL handed to the frontier is in canonical form: the normalizer
\* returns it unchanged, whichever way extracted it
C27_AdmittedIsCanonical ==
    unit.op = "extract" => clean_url(unit.url) = unit.url

pages_opened_below(frontier_url) ==
    IF frontier_url.url_type = 2
    THEN Type2SeedPages(frontier_url, FALSE, frontier)
    ELSE {}

\* C23: when a page of depth d + 1 is fetched, the URLs discovered at
\* depth d are in the frontier.  The pages that the strategy opens are
\* fetched before process_url_at_depth stores what the strategy returns
C23_LevelAdmittedBeforeFetch ==
    [][ProcessStep =>
          (pages_opened_below(urls_to_process[pos]) # {} =>
              \A u \in UrlsOf(process_single_url(urls_to_process[pos])) :
                  exists_in_frontier(frontier, u))]_vars

C30_TargetsNotProcessed ==
    [][ProcessStep =>
          /\ ~urls_to_process[pos].is_target
          /\ urls_to_process[pos].depth <= urls_to_process[pos].max_depth]_vars

\* C29: of the entries that one call of process_url_at_depth admits as
\* children of the page it processed, the targets precede the seeds
C29_TargetsBeforeSeeds ==
    [][ProcessStep =>
          \A i, j \in NewRows :
              /\ frontier'[i].parent_url = urls_to_process[pos].url
              /\ frontier'[j].parent_url = urls_to_process[pos].url
              /\ frontier'[i].is_target
              /\ ~frontier'[j].is_target
              => i < j]_vars


\* a step of process_url_at_depth in which create_url or a status update of
\* the entry raised (a raise of increment_counters alone is not one)
StoreOperationFailed ==
    /\ ProcessStep
    /\ faults' > faults
    /\ urls_to_process[pos].id # NoId
    /\ ~(/\ faults' = faults + 1
         /\ frontier'[urls_to_process[pos].id].error_message = "counters")

\* C38: when create_url or a status update raises, the traversal of the
\* current root stops and the root's RunLog is finished with status FAILED
C38_StoreFailureIsFatal ==
    [][StoreOperationFailed =>
          /\ pc' # "level"
          /\ logs'[log_id].status = "failed"]_vars

\* C40: Crawler.run ends: when the gather of a batch completes every entry
\* of the batch has left PENDING (it is PROCESSED or FAILED), also when the
\* page of the entry could not be created, so that get_pending_urls
\* eventually returns nothing
C40_BatchEntriesLeavePending ==
    [][(bpc = "gather" /\ bpc' = "idle") =>
          \A t \in 1..Len(tasks) :
             frontier'[tasks[t].fu.id].status \in {"processed", "failed"}]_vars

\* C31: a seed that is PROCESSED in the frontier for the category is skipped
\* in a later run: from the second run on no call of process_url_at_depth
\* admits it again, is made for it, or has its strategy open its page
C31_ProcessedSeedSkipped ==
    [][(ProcessStep /\ run >= 2) =>
          LET frontier_url == urls_to_process[pos]
          IN  \A i \in Rows :
                 /\ frontier[i].status = "processed"
                 /\ ~frontier[i].is_target
                 /\ frontier[i].category = frontier_url.category
                 => /\ frontier[i].url # frontier_url.url
                    /\ frontier[i].url \notin pages_opened_below(frontier_url)
                    /\ \A j \in NewRows :
                          frontier'[j].url # frontier[i].url]_vars

\* C32: no strategy returns a child whose URL is the URL of the page it was
\* discovered on
C32_NoSelfChild ==
    \A i \in 1..Len(last_new_urls) :
        last_new_urls[i].url # last_new_urls[i].parent_url

\* C33: for a Type-3 root with max_depth 2, when a depth-1 page is
\* processed the seeds that the classifier returns for it are in the
\* frontier afterwards, with is_target = false and depth 2
C33_ClassifierSeedsAdmitted ==
    [][ProcessStep =>
          LET frontier_url == urls_to_process[pos]
          IN  /\ frontier_url.url_type = 3
              /\ frontier_url.max_depth = 2
              /\ frontier_url.depth = 1
              /\ frontier_url.target_patterns # <<>>
              /\ goto_ok(frontier_url.url)
              => \A u \in Type3Analyze(frontier_url.url).seeds :
                    \E i \in 1..Len(frontier') :
                       /\ frontier'[i].url = u
                       /\ ~frontier'[i].is_target]_vars

\* C35: when the configuration of the root violates the constraint of its
\* type (max_depth other than 0 for Types 0 and 1, other than 1 for Type 2,
\* other than 2 for Type 3, below 2 for Type 4, or target_patterns or a
\* needed seed_pattern missing), the call of process_url_at_depth for an
\* entry of that root admits nothing, adds a warning to the RunLog and,
\* where the entry has a row, leaves the row FAILED
C35_InvalidConfigFails ==
    [][ProcessStep =>
          LET frontier_url == urls_to_process[pos]
          IN  \/ frontier_url.url_type \in {0, 1} /\ frontier_url.max_depth # 0
              \/ frontier_url.url_type = 2 /\ frontier_url.max_depth # 1
              \/ frontier_url.url_type = 3 /\ frontier_url.max_depth # 2
              \/ frontier_url.url_type = 4 /\ frontier_url.max_depth < 2
              \/ frontier_url.target_patterns = <<>>
              \/ frontier_url.url_type \in {2, 3, 4}
                    /\ frontier_url.seed_pattern = None
              => /\ NewRows = {}
                 /\ Len(logs'[log_id].warning_messages) >= 1
                 /\ logs'[log_id].warning_messages
                       # logs[log_id].warning_messages
                 /\ frontier_url.id # NoId =>
                       frontier'[frontier_url.id].status = "failed"]_vars

\* ------------------------------- roots of every type and every max_depth ---
\* the largest max_depth of a configured root
MaxConfigDepth == 3

\* one root of any type with any max_depth: UrlConfig validates only
\* 0 <= type <= 4 and max_depth >= 0
DEPTH_CONFIGS ==
    { <<[url |-> "r1", type |-> t, max_depth |-> d,
         target_patterns |-> <<"pdf">>, seed_pattern |-> "year"]>> :
      t \in 0..4, d \in 0..MaxConfigDepth }

InitDepth ==
    /\ web \in WEBS
    /\ okPages = URLS
    /\ config \in DEPTH_CONFIGS
    /\ order = <<"t1", "r1", "s1", "t2", "s2", "r2">>
    /\ InitStores

SpecDepth == InitDepth /\ [][Next]_vars

\* C39: for every type and every configured max_depth, the controller
\* passes to a strategy only entries with depth <= max_depth, every child
\* admitted is one level below the processed entry, or two levels below it
\* for the targets of a seed page of Type 2, which are built only when the
\* processed entry has depth < max_depth; so no admitted entry is deeper
\* than max_depth + 1
C39_DepthBoundedForEveryType ==
    [][ProcessStep =>
          LET frontier_url == urls_to_process[pos]
          IN  /\ frontier_url.depth <= frontier_url.max_depth
              /\ \A j \in NewRows :
                    /\ frontier'[j].max_depth = frontier_url.max_depth
                    /\ frontier'[j].depth <= frontier_url.max_depth + 1
                    /\ frontier'[j].depth \in {frontier_url.depth + 1,
                                               frontier_url.depth + 2}
                    /\ frontier'[j].depth = frontier_url.depth + 2 =>
                          /\ frontier_url.url_type = 2
                          /\ frontier_url.depth < frontier_url.max_depth]_vars

\* a Type-2 root configured with max_depth 2 has an entry at depth 3, the
\* target of a seed page, and the run of the root is over
C39_Witness ==
    /\ pc = "root_done"
    /\ \E i \in Rows :
          /\ frontier[i].url_type = 2
          /\ frontier[i].max_depth = 2
          /\ frontier[i].depth = 3
          /\ frontier[i].is_target

\* C37: in both classifier paths a URL whose items all have pagination =
\* "true" is in neither the target set nor the seed set, and an item with
\* pagination "false" is placed by its url_category alone
C37_PaginationDiscarded ==
    unit.op = "analyze" /\ unit.mode = "ok" =>
       \A x \in unit.items :
          /\ (\A y \in unit.items : y.url = x.url => y.pagination = "true")
                => /\ x.url \notin unit.type3.targets \cup unit.type3.seeds
                   /\ x.url \notin unit.base.targets \cup unit.base.seeds
          /\ x.pagination = "false" /\ x.url_category = "target"
                => x.url \in unit.type3.targets \cap unit.base.targets
          /\ x.pagination = "false" /\ x.url_category = "seed"
                => x.url \in unit.type3.seeds

\* ------------------------------------- the classifier that does not answer ---
\* roots of Type 3, and of Type 2 beside them, on the webs with classifier
\* labels, for each way a call of the classifier ends
AI_CONFIGS ==
    UNION { [1..n -> {UrlConfig(u, k) :
                         u \in ROOT_URLS,
                         k \in {<<3, 2, "year">>, <<2, 2, "year">>}}] :
            n \in 1..MaxRoots }

InitAI ==
    /\ web \in {[w EXCEPT !.ai = mode] :
                   w \in {WEB_S3, WEB_CYCLE}, mode \in AI_MODES}
    /\ okPages \in OK_SETS
    /\ config \in AI_CONFIGS
    /\ order = <<"t1", "r1", "s1", "t2", "s2", "r2">>
    /\ InitStores

SpecAI == InitAI /\ [][Next]_vars

\* C36: when the classifier has no key, raises or answers without items,
\* both classifier paths give two empty sets for every page, and the call
\* of process_url_at_depth for a Type-3 depth-1 entry returns no child,
\* records the entry PROCESSED with no error message, adds no warning and
\* leaves the loop in the level, at the next URL, with the RunLog RUNNING
C36_ClassifierFailureIsNotFatal ==
    [][(ProcessStep /\ web.ai # "ok") =>
          LET frontier_url == urls_to_process[pos]
          IN  /\ \A u \in URLS :
                    /\ Type3Analyze(u) = NoSets
                    /\ Base_analyze_with_scrapegraph(web.ai, ScrapeResult(u))
                          = NoSets
              /\ frontier_url.url_type = 3 /\ frontier_url.depth = 1
                    => /\ last_new_urls' = <<>>
                       /\ NewRows = {}
                       /\ frontier_url.id # NoId =>
                             /\ frontier'[frontier_url.id].status = "processed"
                             /\ frontier'[frontier_url.id].error_message = None
                       /\ logs'[log_id].warning_messages
                             = logs[log_id].warning_messages
                       /\ logs'[log_id].status = "running"
                       /\ pc' = "level"
                       /\ pos' = pos + 1
                       /\ urls_to_process' = urls_to_process]_vars

\* the classifier did not answer for a depth-1 page of a Type-3 root that
\* loads and on which it would label URLs; the entry is PROCESSED and
\* another URL was processed after it
C36_Witness ==
    /\ web.ai # "ok"
    /\ \E i \in Rows :
          /\ frontier[i].url_type = 3
          /\ frontier[i].depth = 1
          /\ ~frontier[i].is_target
          /\ frontier[i].status = "processed"
          /\ goto_ok(frontier[i].url)
          /\ ScrapeResult(frontier[i].url) # {}
          /\ last_url.url # frontier[i].url
          /\ last_url.id # NoId
          /\ frontier[last_url.id].status = "processed"
====
